---- MODULE Spec2Model ----
(***************************************************************************)
(* A model of sortify (src/src/main.rs): one run of main, which checks the *)
(* target directory, enumerates its files once, and drives every chunk of  *)
(* batch_size files through process_batch (retry loop against the          *)
(* inference endpoint, then placement of the files into category           *)
(* directories).                                                           *)
(*                                                                         *)
(* Strings are sequences of one-character strings, so that the character   *)
(* filter of the category sanitizer and starts_with('.') are computed.     *)
(***************************************************************************)
EXTENDS Integers, Sequences, FiniteSets, TLC

VARIABLES
    pc,                \* position of the single thread of control
    target,            \* what args.target_dir names: "dir", "file" or "missing"
    top,               \* names of the regular files directly in the target
    dirs,              \* names of the directories directly in the target
    placed,            \* <<d, name>>: file name inside directory d of the target
    files_to_process,  \* main.rs:55
    batch_size,        \* args.batch_size
    chunkIdx,          \* which chunk of files_to_process.chunks(batch_size) is current
    attempt,           \* loop variable of main.rs:110
    mapping,           \* main.rs:108, [some |-> BOOLEAN, map |-> function]
    idx,               \* position of the loop of main.rs:162 in paths
    requests,          \* requests sent for the current chunk
    delays,            \* 2-second sleeps taken for the current chunk
    result,            \* "running", "Ok" or "Err": what main returned
    err,               \* which `?`/bail! produced the Err
    printed,           \* stdout lines of main (by kind)
    assigned,          \* filename -> raw category its own chunk's mapping gave it
    skipped,           \* indices of the chunks that ran out of attempts
    unmapped,          \* files whose name was not a key of their chunk's mapping
    failedMoves,       \* files whose fs::rename returned an error
    sIn, sOut,         \* input and output of the sanitizer (PureSpec)
    cIn, cOut,         \* input and output of chunks (PureSpec)
    pIn, pOut,         \* response text and what it parses to (PureSpec)
    stderr,            \* the diagnostic line the last step wrote, if any
    response,          \* ollama_res.response of the attempt just answered
    sent               \* requests sent to the endpoint since the run began

vars == <<pc, target, top, dirs, placed, files_to_process, batch_size, chunkIdx,
          attempt, mapping, idx, requests, delays, result, err, printed,
          assigned, skipped, unmapped, failedMoves, sIn, sOut, cIn, cOut,
          pIn, pOut, stderr, response, sent>>

pureVars == <<sIn, sOut, cIn, cOut, pIn, pOut>>

----------------------------------------------------------------------------
(* Bounds *)

MaxBatchSize == 3
MaxLabelLen == 3
MaxListLen == 5

(* Program constants *)

max_retries == 3

----------------------------------------------------------------------------
(* Characters.  char::is_alphanumeric is Unicode-aware: "E9" stands for    *)
(* the single character U+00E9, a letter outside ASCII.                    *)

AlphaNum == {"a", "b", "M", "y", "I", "n", "v", "o", "i", "c", "e", "s",
             "0", "2", "4", "O", "t", "h", "r", "x", "j", "E9"}

is_alphanumeric(c) == c \in AlphaNum

Other == <<"O", "t", "h", "e", "r">>

\* a filter that keeps dots as well
SanitizeKeepsDots(category) ==
    LET filtered ==
            SelectSeq(category, LAMBDA c : is_alphanumeric(c) \/ c = ".")
    IN  IF filtered = <<>> THEN Other ELSE filtered

\* the filter without the "Other" fallback
SanitizeNoFallback(category) == SelectSeq(category, is_alphanumeric)

\* main.rs:165-166
sanitized_category(category) ==
    LET filtered == SelectSeq(category, is_alphanumeric)
    IN  IF filtered = <<>> THEN Other ELSE filtered

----------------------------------------------------------------------------
(* slice::chunks, main.rs:73 *)

Min(a, b) == IF a < b THEN a ELSE b

NumChunks(n, b) == (n + b - 1) \div b

\* chunks that drops a shorter last chunk
ChunksExact(s, b) ==
    [k \in 1..(Len(s) \div b) |-> SubSeq(s, (k - 1) * b + 1, k * b)]

chunks(s, b) ==
    [k \in 1..NumChunks(Len(s), b) |->
        SubSeq(s, (k - 1) * b + 1, Min(k * b, Len(s)))]

----------------------------------------------------------------------------
(* The directory the run is pointed at.  File names with an extension,     *)
(* one without (its name is also a possible category directory name), a    *)
(* dot-file, and a directory that an earlier run left behind.              *)

XJ == <<"x", ".", "j">>
YJ == <<"y", ".", "j">>
NA == <<"a">>
DotH == <<".", "h">>

RegularNames == {XJ, YJ, NA}
HiddenNames == {DotH}
PreDirs == {<<"O", "t", "h", "e", "r">>}

(* Raw category labels the endpoint may answer with. *)
RawLabels == {<<"/">>, <<".", ".", "/", "a">>}

RECURSIVE Perms(_)
Perms(S) ==
    IF S = {} THEN {<<>>}
    ELSE UNION {{<<x>> \o p : p \in Perms(S \ {x})} : x \in S}

Range(s) == {s[k] : k \in DOMAIN s}

----------------------------------------------------------------------------
(* The text of OllamaResponse.response, as a sequence of tokens: a code    *)
(* fence, a language tag, whitespace, or one JSON value.                   *)

Fence == [t |-> "fence", v |-> <<>>]
TagJson == [t |-> "json", v |-> <<>>]
TagOther == [t |-> "tag", v |-> <<>>]
Ws == [t |-> "ws", v |-> <<>>]
Json(val) == [t |-> "value", v |-> val]

NonString == [str |-> FALSE, s |-> <<>>]
Str(label) == [str |-> TRUE, s |-> label]

JsonValues == {Str(l) : l \in RawLabels} \cup {NonString}

JsonObjects ==
    UNION {[K -> JsonValues] : K \in SUBSET RegularNames}

JsonArray == [kind |-> "array", entries |-> <<>>]
Object(e) == [kind |-> "object", entries |-> e]

Payloads == {Object(e) : e \in JsonObjects} \cup {JsonArray}

(* What the endpoint answers with in a run: every object with string      *)
(* values, an array, and an object with a string and a non-string value,  *)
(* each bare or in a ```json fence; one answer in a fence with another    *)
(* tag; and the empty text.                                               *)
MixedObject == Object((XJ :> Str(<<"/">>)) @@ (YJ :> NonString))

StringObjects ==
    {Object(e) : e \in UNION {[K -> {Str(l) : l \in RawLabels}] :
                                  K \in SUBSET RegularNames}}

EndpointPayloads == StringObjects \cup {JsonArray, MixedObject}

Wrappings(j) ==
    { <<Json(j)>>,
      <<Fence, TagJson, Ws, Json(j), Ws, Fence>> }

ResponseTexts ==
    UNION {Wrappings(j) : j \in EndpointPayloads}
        \cup {<<Fence, TagOther, Ws, Json(Object((XJ :> Str(<<"/">>)))), Ws, Fence>>,
              <<>>}

RECURSIVE trim_start(_)
trim_start(s) ==
    IF s # <<>> /\ Head(s).t = "ws" THEN trim_start(Tail(s)) ELSE s

RECURSIVE trim_end(_)
trim_end(s) ==
    IF s # <<>> /\ s[Len(s)].t = "ws"
    THEN trim_end(SubSeq(s, 1, Len(s) - 1)) ELSE s

\* str::trim, main.rs:126
trim(s) == trim_end(trim_start(s))

\* the "```json" opener not handled
StripPrefixFenceJsonMissing(s) == s

\* strip_prefix("```json").unwrap_or(..), main.rs:127
strip_prefix_fence_json(s) ==
    IF Len(s) >= 2 /\ s[1].t = "fence" /\ s[2].t = "json"
    THEN SubSeq(s, 3, Len(s)) ELSE s

\* strip_prefix("```").unwrap_or(..), main.rs:128
strip_prefix_fence(s) ==
    IF Len(s) >= 1 /\ s[1].t = "fence" THEN Tail(s) ELSE s

\* strip_suffix("```").unwrap_or(..), main.rs:129
strip_suffix_fence(s) ==
    IF Len(s) >= 1 /\ s[Len(s)].t = "fence"
    THEN SubSeq(s, 1, Len(s) - 1) ELSE s

\* main.rs:126-129
clean_json(text) ==
    strip_suffix_fence(strip_prefix_fence(strip_prefix_fence_json(trim(text))))

None == [some |-> FALSE, map |-> <<>>]

\* a line of eprintln! (main.rs:121, 137, 141, 145, 149, 157), by kind, with
\* the response text it quotes
Line(kind, text) == [kind |-> kind, text |-> text]
NoLine == Line("none", <<>>)

\* a step that writes no diagnostic and holds no response
Silent == stderr' = NoLine /\ response' = <<>>
Some(m) == [some |-> TRUE, map |-> m]

\* serde_json::from_str::<HashMap<String, String>>, main.rs:131: exactly one
\* JSON value, surrounded by optional whitespace, that is an object whose
\* values are all strings.
from_str(s) ==
    LET body == trim(s)
    IN  IF /\ Len(body) = 1
           /\ body[1].t = "value"
           /\ body[1].v.kind = "object"
           /\ \A k \in DOMAIN body[1].v.entries : body[1].v.entries[k].str
        THEN Some([k \in DOMAIN body[1].v.entries |-> body[1].v.entries[k].s])
        ELSE None

----------------------------------------------------------------------------
(* Filesystem queries *)

\* Path::is_dir of an entry of the target, main.rs:60
is_dir(name) == name \in dirs

\* the check that the directory is there left out
ExistsNever(name) == FALSE

\* Path::exists of target/name, main.rs:169
exists(name) == name \in dirs \/ name \in top

\* name.starts_with('.'), main.rs:62
starts_with_dot(name) == name # <<>> /\ Head(name) = "."

\* the listing filtered without the test for a leading dot
EligibleWithHidden(listing) == SelectSeq(listing, LAMBDA n : ~is_dir(n))

\* the loop of main.rs:57-65 over one listing of the directory
eligible(listing) ==
    SelectSeq(listing, LAMBDA n : ~is_dir(n) /\ ~starts_with_dot(n))

\* the chunk process_batch is working on (its `paths` argument)
paths == chunks(files_to_process, batch_size)[chunkIdx]

\* main.rs:82-98: the file names the prompt lists
filenames == paths

----------------------------------------------------------------------------
(* One run of main *)

Init ==
    /\ pc = "main"
    /\ target \in {"dir", "file", "missing"}
    /\ IF target = "dir"
       THEN /\ top \in SUBSET (RegularNames \cup HiddenNames)
            /\ dirs \in SUBSET PreDirs
       ELSE /\ top = {}
            /\ dirs = {}
    /\ placed = {}
    /\ files_to_process = <<>>
    /\ batch_size \in 1..MaxBatchSize
    /\ chunkIdx = 0
    /\ attempt = 0
    /\ mapping = None
    /\ idx = 0
    /\ requests = 0
    /\ delays = 0
    /\ result = "running"
    /\ err = "none"
    /\ printed = {}
    /\ assigned = <<>>
    /\ skipped = {}
    /\ unmapped = {}
    /\ failedMoves = {}
    /\ sIn = <<>> /\ sOut = <<>> /\ cIn = <<0, 1>> /\ cOut = <<>>
    /\ pIn = <<>> /\ pOut = None
    /\ stderr = NoLine /\ response = <<>>
    /\ sent = 0

fsVars == <<top, dirs, placed>>
batchVars == <<attempt, mapping, idx, requests, delays>>
histVars == <<assigned, skipped, unmapped, failedMoves>>

\* the check of the target left out
TargetInvalidIgnored ==
    /\ pc = "main"
    /\ target # "dir"
    /\ pc' = "read_dir"
    /\ printed' = printed \cup {"Sorting"}
    /\ Silent
    /\ UNCHANGED <<target, sent, fsVars, files_to_process, batch_size, chunkIdx,
                   batchVars, result, err, histVars, pureVars>>

\* main.rs:48-50: bail! when the target is missing or not a directory
TargetInvalid ==
    /\ pc = "main"
    /\ target # "dir"
    /\ pc' = "exit"
    /\ result' = "Err"
    /\ err' = "precondition"
    /\ Silent
    /\ UNCHANGED <<target, sent, fsVars, files_to_process, batch_size, chunkIdx,
                   batchVars, printed, histVars, pureVars>>

\* main.rs:48-52
TargetValid ==
    /\ pc = "main"
    /\ target = "dir"
    /\ pc' = "read_dir"
    /\ printed' = printed \cup {"Sorting"}
    /\ Silent
    /\ UNCHANGED <<target, sent, fsVars, files_to_process, batch_size, chunkIdx,
                   batchVars, result, err, histVars, pureVars>>

\* main.rs:54, 58: read_dir or one of its entries returns an error
ReadDirFail ==
    /\ pc = "read_dir"
    /\ pc' = "exit"
    /\ result' = "Err"
    /\ err' = "read_dir"
    /\ Silent
    /\ UNCHANGED <<target, sent, fsVars, files_to_process, batch_size, chunkIdx,
                   batchVars, printed, histVars, pureVars>>

\* main.rs:54-70: no eligible file
ReadDirEmpty ==
    /\ pc = "read_dir"
    /\ \E listing \in Perms(top \cup dirs) :
          /\ eligible(listing) = <<>>
          /\ files_to_process' = eligible(listing)
    /\ printed' = printed \cup {"NoFiles"}
    /\ pc' = "exit"
    /\ result' = "Ok"
    /\ Silent
    /\ UNCHANGED <<target, sent, fsVars, batch_size, chunkIdx, batchVars, err,
                   histVars, pureVars>>

\* main.rs:54-73: the directory is listed in some order
ReadDirFiles ==
    /\ pc = "read_dir"
    /\ \E listing \in Perms(top \cup dirs) :
          /\ eligible(listing) # <<>>
          /\ files_to_process' = eligible(listing)
    /\ chunkIdx' = 1
    /\ pc' = "chunks"
    /\ Silent
    /\ UNCHANGED <<target, sent, fsVars, batch_size, batchVars, result, err, printed,
                   histVars, pureVars>>

\* main.rs:73-74, 82-108: the next chunk enters process_batch
BeginBatch ==
    /\ pc = "chunks"
    /\ chunkIdx <= Len(chunks(files_to_process, batch_size))
    /\ attempt' = 1
    /\ mapping' = None
    /\ idx' = 0
    /\ requests' = 0
    /\ delays' = 0
    /\ pc' = "send"
    /\ Silent
    /\ UNCHANGED <<target, sent, fsVars, files_to_process, batch_size, chunkIdx,
                   result, err, printed, histVars, pureVars>>

\* main.rs:75-78: no chunk left
Finish ==
    /\ pc = "chunks"
    /\ chunkIdx > Len(chunks(files_to_process, batch_size))
    /\ printed' = printed \cup {"Done"}
    /\ result' = "Ok"
    /\ pc' = "exit"
    /\ Silent
    /\ UNCHANGED <<target, sent, fsVars, files_to_process, batch_size, chunkIdx,
                   batchVars, err, histVars, pureVars>>

\* main.rs:111-114
SendRequest ==
    /\ pc = "send"
    /\ requests' = requests + 1
    /\ sent' = sent + 1
    /\ pc' = "await"
    /\ Silent
    /\ UNCHANGED <<target, fsVars, files_to_process, batch_size, chunkIdx,
                   attempt, mapping, idx, delays, result, err, printed,
                   histVars, pureVars>>

\* a loop over 1..max_retries without its upper end
AfterFailedAttemptExclusive(a) ==
    IF a < max_retries - 1 THEN "sleep" ELSE "after_loop"

\* a loop that allows one attempt more
AfterFailedAttemptOffByOne(a) ==
    IF a <= max_retries THEN "sleep" ELSE "after_loop"

\* main.rs:148-152: where the loop goes after a failed attempt
AfterFailedAttempt(a) == IF a < max_retries THEN "sleep" ELSE "after_loop"

AttemptFailed(line, text) ==
    /\ pc = "await"
    /\ pc' = AfterFailedAttempt(attempt)
    /\ stderr' = line
    /\ response' = text
    /\ UNCHANGED <<target, sent, fsVars, files_to_process, batch_size, chunkIdx,
                   batchVars, result, err, printed, histVars, pureVars>>

\* main.rs:145
NetworkError == AttemptFailed(Line("network", <<>>), <<>>)

\* main.rs:118-121
ApiError == AttemptFailed(Line("api", <<>>), <<>>)

\* main.rs:141
BodyError == AttemptFailed(Line("body", <<>>), <<>>)

\* main.rs:126-131: the texts the endpoint may answer with that parse to a
\* mapping, and those that do not
AcceptedTexts == {text \in ResponseTexts : from_str(clean_json(text)).some}

RejectedTexts == {text \in ResponseTexts : ~from_str(clean_json(text)).some}

\* the parse error reported with the cleaned text
JsonParseErrorLogsCleaned ==
    /\ pc = "await"
    /\ \E text \in RejectedTexts :
          AttemptFailed(Line("parse", clean_json(text)), text)

\* main.rs:126-131, 136-138
JsonParseError ==
    /\ pc = "await"
    /\ \E text \in RejectedTexts : AttemptFailed(Line("parse", text), text)

\* main.rs:126-135
ParsedMapping ==
    /\ pc = "await"
    /\ \E text \in AcceptedTexts :
          /\ mapping' = from_str(clean_json(text))
          /\ response' = text
    /\ stderr' = NoLine
    /\ pc' = "after_loop"
    /\ UNCHANGED <<target, sent, fsVars, files_to_process, batch_size, chunkIdx,
                   attempt, idx, requests, delays, result, err, printed,
                   histVars, pureVars>>

\* main.rs:148-151, then the next iteration of the loop of main.rs:110
Sleep ==
    /\ pc = "sleep"
    /\ delays' = delays + 1
    /\ attempt' = attempt + 1
    /\ pc' = "send"
    /\ stderr' = Line("retrying", <<>>)
    /\ response' = <<>>
    /\ UNCHANGED <<target, sent, fsVars, files_to_process, batch_size, chunkIdx,
                   mapping, idx, requests, result, err, printed, histVars,
                   pureVars>>

\* exhaustion returned as an error through main.rs:74
SkipBatchAborts ==
    /\ pc = "after_loop"
    /\ ~mapping.some
    /\ skipped' = skipped \cup {chunkIdx}
    /\ pc' = "exit"
    /\ result' = "Err"
    /\ err' = "exhausted"
    /\ Silent
    /\ UNCHANGED <<target, sent, fsVars, files_to_process, batch_size, chunkIdx,
                   batchVars, printed, assigned, unmapped, failedMoves,
                   pureVars>>

\* process_batch returns: its locals are gone
LocalsDropped ==
    /\ attempt' = 0
    /\ mapping' = None
    /\ idx' = 0
    /\ requests' = 0
    /\ delays' = 0

\* main.rs:154-160: no mapping, process_batch returns Ok(())
SkipBatch ==
    /\ pc = "after_loop"
    /\ ~mapping.some
    /\ skipped' = skipped \cup {chunkIdx}
    /\ chunkIdx' = chunkIdx + 1
    /\ pc' = "chunks"
    /\ LocalsDropped
    /\ stderr' = Line("skipping", <<>>)
    /\ response' = <<>>
    /\ UNCHANGED <<target, sent, fsVars, files_to_process, batch_size,
                   result, err, printed, assigned, unmapped, failedMoves,
                   pureVars>>

\* main.rs:154-162
StartPlacement ==
    /\ pc = "after_loop"
    /\ mapping.some
    /\ idx' = 1
    /\ pc' = "place"
    /\ Silent
    /\ UNCHANGED <<target, sent, fsVars, files_to_process, batch_size, chunkIdx,
                   attempt, mapping, requests, delays, result, err, printed,
                   histVars, pureVars>>

\* a file the mapping lacks is put into "Other"
PlaceAbsentMovesToOther ==
    /\ pc = "place"
    /\ idx <= Len(paths)
    /\ paths[idx] \notin DOMAIN mapping.map
    /\ unmapped' = unmapped \cup {paths[idx]}
    /\ dirs' = dirs \cup {Other}
    /\ top' = top \ {paths[idx]}
    /\ placed' = placed \cup {<<Other, paths[idx]>>}
    /\ idx' = idx + 1
    /\ Silent
    /\ UNCHANGED <<pc, target, sent, files_to_process, batch_size, chunkIdx,
                   attempt, mapping, requests, delays, result, err, printed,
                   assigned, skipped, failedMoves, pureVars>>

\* main.rs:163-164: the file's name is not a key of the mapping
PlaceAbsent ==
    /\ pc = "place"
    /\ idx <= Len(paths)
    /\ paths[idx] \notin DOMAIN mapping.map
    /\ unmapped' = unmapped \cup {paths[idx]}
    /\ idx' = idx + 1
    /\ Silent
    /\ UNCHANGED <<pc, target, sent, fsVars, files_to_process, batch_size, chunkIdx,
                   attempt, mapping, requests, delays, result, err, printed,
                   assigned, skipped, failedMoves, pureVars>>

\* the raw category used as the directory name
TargetDirRaw == mapping.map[paths[idx]]

\* main.rs:168: the directory the file at paths[idx] is to go to
target_dir == sanitized_category(mapping.map[paths[idx]])

\* main.rs:169-171: create_dir_all fails and `?` returns the error, which
\* main.rs:74 returns from main
CreateDirFail ==
    /\ pc = "place"
    /\ idx <= Len(paths)
    /\ paths[idx] \in DOMAIN mapping.map
    /\ ~exists(target_dir)
    /\ assigned' = assigned @@ (paths[idx] :> mapping.map[paths[idx]])
    /\ pc' = "exit"
    /\ result' = "Err"
    /\ err' = "create_dir"
    /\ LocalsDropped
    /\ Silent
    /\ UNCHANGED <<target, sent, fsVars, files_to_process, batch_size, chunkIdx,
                   printed, skipped, unmapped, failedMoves, pureVars>>

\* main.rs:169-171: the directories after the check and the creation
DirsAfterCreate == IF exists(target_dir) THEN dirs ELSE dirs \cup {target_dir}

\* the file copied into the directory and left where it was
MoveOkCopies ==
    /\ pc = "place"
    /\ idx <= Len(paths)
    /\ paths[idx] \in DOMAIN mapping.map
    /\ dirs' = DirsAfterCreate
    /\ target_dir \in dirs'
    /\ top' = top
    /\ placed' = placed \cup {<<target_dir, paths[idx]>>}
    /\ assigned' = assigned @@ (paths[idx] :> mapping.map[paths[idx]])
    /\ idx' = idx + 1
    /\ Silent
    /\ UNCHANGED <<pc, target, sent, files_to_process, batch_size, chunkIdx,
                   attempt, mapping, requests, delays, result, err, printed,
                   skipped, unmapped, failedMoves, pureVars>>

\* main.rs:164-175: the directory is there or is created, and rename moves
\* the file into it
MoveOk ==
    /\ pc = "place"
    /\ idx <= Len(paths)
    /\ paths[idx] \in DOMAIN mapping.map
    /\ dirs' = DirsAfterCreate
    /\ target_dir \in dirs'
    /\ top' = top \ {paths[idx]}
    /\ placed' = placed \cup {<<target_dir, paths[idx]>>}
    /\ assigned' = assigned @@ (paths[idx] :> mapping.map[paths[idx]])
    /\ idx' = idx + 1
    /\ Silent
    /\ UNCHANGED <<pc, target, sent, files_to_process, batch_size, chunkIdx,
                   attempt, mapping, requests, delays, result, err, printed,
                   skipped, unmapped, failedMoves, pureVars>>

\* a rename error returned with `?` instead of dropped
MoveFailAborts ==
    /\ pc = "place"
    /\ idx <= Len(paths)
    /\ paths[idx] \in DOMAIN mapping.map
    /\ dirs' = DirsAfterCreate
    /\ failedMoves' = failedMoves \cup {paths[idx]}
    /\ assigned' = assigned @@ (paths[idx] :> mapping.map[paths[idx]])
    /\ pc' = "exit"
    /\ result' = "Err"
    /\ err' = "rename"
    /\ Silent
    /\ UNCHANGED <<target, sent, top, placed, files_to_process, batch_size,
                   chunkIdx, batchVars, printed, skipped, unmapped, pureVars>>

\* main.rs:164-175: the directory is there or is created, rename fails (the
\* destination is not a directory, or the filesystem refuses) and .ok()
\* drops the error
MoveFail ==
    /\ pc = "place"
    /\ idx <= Len(paths)
    /\ paths[idx] \in DOMAIN mapping.map
    /\ dirs' = DirsAfterCreate
    /\ failedMoves' = failedMoves \cup {paths[idx]}
    /\ assigned' = assigned @@ (paths[idx] :> mapping.map[paths[idx]])
    /\ idx' = idx + 1
    /\ Silent
    /\ UNCHANGED <<pc, target, sent, top, placed, files_to_process, batch_size,
                   chunkIdx, attempt, mapping, requests, delays, result, err,
                   printed, skipped, unmapped, pureVars>>

\* the placement loop left before its last file
EndBatchEarly ==
    /\ pc = "place"
    /\ idx >= Len(paths)
    /\ chunkIdx' = chunkIdx + 1
    /\ pc' = "chunks"
    /\ LocalsDropped
    /\ Silent
    /\ UNCHANGED <<target, sent, fsVars, files_to_process, batch_size,
                   result, err, printed, histVars, pureVars>>

\* main.rs:177-179: process_batch returns Ok(()) and drops its locals
EndBatch ==
    /\ pc = "place"
    /\ idx > Len(paths)
    /\ chunkIdx' = chunkIdx + 1
    /\ pc' = "chunks"
    /\ LocalsDropped
    /\ Silent
    /\ UNCHANGED <<target, sent, fsVars, files_to_process, batch_size,
                   result, err, printed, histVars, pureVars>>

Next ==
    \/ TargetInvalid
    \/ TargetValid
    \/ ReadDirFail
    \/ ReadDirEmpty
    \/ ReadDirFiles
    \/ BeginBatch
    \/ Finish
    \/ SendRequest
    \/ NetworkError
    \/ ApiError
    \/ BodyError
    \/ JsonParseError
    \/ ParsedMapping
    \/ Sleep
    \/ SkipBatch
    \/ StartPlacement
    \/ PlaceAbsent
    \/ CreateDirFail
    \/ MoveOk
    \/ MoveFail
    \/ EndBatch

Spec == Init /\ [][Next]_vars

----------------------------------------------------------------------------
(* The sanitizer and chunks applied to inputs drawn from bounded sets *)

EnumChars == {"a", "M", "2", "E9", " ", "!", "/", "."}

BoundedSeqs(S, n) == UNION {[1..k -> S] : k \in 0..n}

InvoiceLabel == <<"M", "y", " ", "I", "n", "v", "o", "i", "c", "e", "s", " ",
                  "2", "0", "2", "4", "!">>

SanitizerInputs ==
    BoundedSeqs(EnumChars, MaxLabelLen) \cup {InvoiceLabel, <<"!", "!", "!">>}

Iota(n) == [k \in 1..n |-> k]

(* One JSON value with or without whitespace and fences around it: an      *)
(* opening fence with the tag json, with another tag or with none, and a   *)
(* closing fence, each present or not.                                     *)
OptWs == {<<>>, <<Ws>>}
Openers == {<<>>, <<Fence>>, <<Fence, TagJson>>, <<Fence, TagOther>>}
Closers == {<<>>, <<Fence>>}

FencedTexts(j) ==
    {lead \o open \o w1 \o <<Json(j)>> \o w2 \o close \o trail :
        lead \in OptWs, open \in Openers, w1 \in OptWs, w2 \in OptWs,
        close \in Closers, trail \in OptWs}

ParseInputs == UNION {FencedTexts(j) : j \in Payloads}

PureInit ==
    /\ pc = "pure"
    /\ target = "missing"
    /\ top = {} /\ dirs = {} /\ placed = {}
    /\ files_to_process = <<>>
    /\ batch_size = 1
    /\ chunkIdx = 0 /\ attempt = 0 /\ mapping = None /\ idx = 0
    /\ requests = 0 /\ delays = 0
    /\ result = "running" /\ err = "none" /\ printed = {}
    /\ assigned = <<>> /\ skipped = {} /\ unmapped = {} /\ failedMoves = {}
    /\ sOut = <<>>
    /\ cOut = <<>>
    /\ pOut = None
    /\ stderr = NoLine /\ response = <<>>
    /\ sent = 0
    /\ \/ sIn \in SanitizerInputs /\ cIn = <<0, 1>> /\ pIn = <<>>
       \/ sIn = <<>> /\ cIn \in (0..MaxListLen) \X (1..(MaxListLen + 1))
             /\ pIn = <<>>
       \/ sIn = <<>> /\ cIn = <<0, 1>> /\ pIn \in ParseInputs

\* main.rs:165-166 applied to sIn
ApplySanitize ==
    /\ pc = "pure"
    /\ cIn = <<0, 1>>
    /\ pIn = <<>>
    /\ sOut' = sanitized_category(sIn)
    /\ pc' = "sanitized"
    /\ Silent
    /\ UNCHANGED <<target, sent, fsVars, files_to_process, batch_size, chunkIdx,
                   batchVars, result, err, printed, histVars, sIn, cIn, cOut,
                   pIn, pOut>>

\* main.rs:73 applied to a list of cIn[1] files and batch size cIn[2]
ApplyChunks ==
    /\ pc = "pure"
    /\ sIn = <<>>
    /\ pIn = <<>>
    /\ cOut' = chunks(Iota(cIn[1]), cIn[2])
    /\ pc' = "chunked"
    /\ Silent
    /\ UNCHANGED <<target, sent, fsVars, files_to_process, batch_size, chunkIdx,
                   batchVars, result, err, printed, histVars, sIn, sOut, cIn,
                   pIn, pOut>>

\* main.rs:126-131 applied to the response text pIn
ApplyParse ==
    /\ pc = "pure"
    /\ sIn = <<>>
    /\ cIn = <<0, 1>>
    /\ pOut' = from_str(clean_json(pIn))
    /\ pc' = "parsed"
    /\ Silent
    /\ UNCHANGED <<target, sent, fsVars, files_to_process, batch_size, chunkIdx,
                   batchVars, result, err, printed, histVars, sIn, sOut, cIn,
                   cOut, pIn>>

PureNext == ApplySanitize \/ ApplyChunks \/ ApplyParse

PureSpec == PureInit /\ [][PureNext]_vars

TypeOK ==
    /\ pc \in {"main", "read_dir", "chunks", "send", "await", "sleep",
               "after_loop", "place", "exit", "pure", "sanitized", "chunked",
               "parsed"}
    /\ result \in {"running", "Ok", "Err"}
    /\ requests \in 0..max_retries
    /\ sent \in 0..(max_retries * MaxListLen)

----------------------------------------------------------------------------
(* What the claims are stated with *)

RetryLoop == {"send", "await", "sleep"}

Exhausted == pc = "after_loop" /\ ~mapping.some

AlnumPositions(raw) == {i \in DOMAIN raw : raw[i] \in AlphaNum}

KthPosition(P, k) == CHOOSE i \in P : Cardinality({j \in P : j <= i}) = k

\* out is the alphanumeric characters of raw, in order, or "Other"
IsSanitizedOf(out, raw) ==
    LET P == AlnumPositions(raw)
    IN  IF P = {}
        THEN out = <<"O", "t", "h", "e", "r">>
        ELSE /\ Len(out) = Cardinality(P)
             /\ \A k \in 1..Len(out) : out[k] = raw[KthPosition(P, k)]

RECURSIVE Flatten(_)
Flatten(ss) == IF ss = <<>> THEN <<>> ELSE Head(ss) \o Flatten(Tail(ss))

ChunkOf(k) == chunks(files_to_process, batch_size)[k]

----------------------------------------------------------------------------
\* C1: a batch sees at most 3 requests; the first attempt that yields a
\* mapping ends the retry loop; from then on, until process_batch returns,
\* no request is sent and the mapping stays the same, and every file that
\* is moved goes to the directory that mapping names for it.
C1_RetryLoop ==
    [][ /\ requests' <= 3
        /\ (pc = "await" /\ mapping'.some) =>
              (pc' = "after_loop" /\ requests' = requests)
        /\ (mapping.some /\ pc' \notin {"chunks", "exit"}) =>
              /\ mapping' = mapping
              /\ requests' = requests
              /\ pc' \notin RetryLoop
        /\ \A f \in top \ top' :
              /\ mapping.some
              /\ f \in DOMAIN mapping.map
              /\ \E d \in dirs' : /\ <<d, f>> \in placed'
                                  /\ IsSanitizedOf(d, mapping.map[f])
      ]_vars

\* attempts 1 and 2 failed, attempt 3 gave the mapping, a file was moved
C1_Witness ==
    /\ pc = "place"
    /\ requests = 3
    /\ delays = 2
    /\ \E f \in Range(paths) : f \notin top

\* C2: while a batch is in its retry loop, and when its 3 attempts are
\* used up, its files are at their original paths and nothing is moved or
\* created; exhaustion skips to the next batch with the run still going,
\* and the files of a skipped batch stay where they were.
C2_ExhaustedBatchUntouched ==
    /\ [](\A k \in skipped : \A f \in Range(ChunkOf(k)) :
            /\ f \in top
            /\ f \notin DOMAIN assigned
            /\ \A d \in dirs : <<d, f>> \notin placed)
    /\ [][ /\ (pc \in RetryLoop \/ Exhausted) =>
                /\ UNCHANGED fsVars
                /\ result' = "running"
                /\ \A f \in Range(paths) : f \in top
           /\ Exhausted =>
                /\ requests = 3
                /\ pc' = "chunks"
                /\ chunkIdx' = chunkIdx + 1
                /\ skipped' = skipped \cup {chunkIdx}
         ]_vars

\* a batch was skipped and a later batch has a file moved
C2_Witness ==
    /\ pc = "place"
    /\ \E k \in skipped : k < chunkIdx
    /\ \E f \in Range(paths) : f \notin top

\* C3: a failure to create a category directory does not make the run end
\* in failure.
C3_CreateDirContained == ~(pc = "exit" /\ result = "Err" /\ err = "create_dir")

\* C4: a rename failure leaves the file at its original path, the loop goes
\* on to the next file of the batch with the run still going, and when the
\* batch's placement returns, every file of the batch that the mapping names
\* was attempted and the next batch is up.
C4_MoveFailureContained ==
    /\ [](\A f \in failedMoves : f \in top)
    /\ [][ /\ failedMoves' # failedMoves =>
                /\ pc = "place" /\ pc' = "place"
                /\ idx' = idx + 1
                /\ top' = top /\ placed' = placed
                /\ result' = "running"
           /\ (pc = "place" /\ idx > Len(paths)) =>
                /\ \A f \in Range(paths) \cap DOMAIN mapping.map :
                      f \in DOMAIN assigned
                /\ pc' = "chunks"
                /\ chunkIdx' = chunkIdx + 1
                /\ result' = "running"
         ]_vars

\* a rename failed and a later file of the same batch was moved
C4_Witness ==
    /\ pc = "place"
    /\ \E i, j \in 1..Len(paths) :
          /\ i < j /\ j < idx
          /\ paths[i] \in failedMoves
          /\ paths[j] \notin top

\* C5: the filesystem changes only in a placement step for the current file
\* of the current batch, whose name is a key of the mapping: only that file
\* leaves the top level, only its category directory is created; a file the
\* mapping lacks stays at its path and the placement goes on without error.
C5_OnlyMappedFilesMove ==
    /\ [](\A f \in unmapped : f \in top /\ \A d \in dirs : <<d, f>> \notin placed)
    /\ [][ /\ (top' # top \/ dirs' # dirs \/ placed' # placed) =>
                /\ pc = "place"
                /\ idx <= Len(paths)
                /\ paths[idx] \in DOMAIN mapping.map
                /\ top \ top' \subseteq {paths[idx]}
                /\ \A d \in dirs' \ dirs : IsSanitizedOf(d, mapping.map[paths[idx]])
                /\ \A e \in placed' \ placed :
                      /\ e[2] = paths[idx]
                      /\ IsSanitizedOf(e[1], mapping.map[paths[idx]])
           /\ (pc = "place" /\ idx <= Len(paths)
                 /\ paths[idx] \notin DOMAIN mapping.map) =>
                /\ UNCHANGED fsVars
                /\ pc' = "place"
                /\ idx' = idx + 1
                /\ result' = "running"
         ]_vars

\* the mapping has a key outside the batch and lacks a file of the batch,
\* which is still at the top level, while another file of the batch moved
C5_Witness ==
    /\ pc = "place"
    /\ idx > Len(paths)
    /\ \E k \in DOMAIN mapping.map : k \notin Range(paths)
    /\ \E f, g \in Range(paths) :
          /\ f \notin DOMAIN mapping.map /\ f \in top
          /\ g \in DOMAIN mapping.map /\ g \notin top

\* C6: the chunks of a list, concatenated in order, are the list; every
\* chunk but the last has exactly b elements and the last has 1..b.
C6_ChunksPartition ==
    pc = "chunked" =>
        LET n == cIn[1]
            b == cIn[2]
        IN  /\ Flatten(cOut) = Iota(n)
            /\ \A k \in 1..Len(cOut) :
                  /\ k < Len(cOut) => Len(cOut[k]) = b
                  /\ Len(cOut[k]) >= 1
                  /\ Len(cOut[k]) <= b
            /\ n = 0 => cOut = <<>>

\* 5 files in batches of 2: two full chunks and a last chunk of one
C6_Witness ==
    /\ pc = "chunked"
    /\ cIn = <<5, 2>>
    /\ Len(cOut) = 3
    /\ cOut[3] = <<5>>

\* C7: when the target is missing or not a directory, the run goes from its
\* start straight to a failed exit: nothing is listed, no request is sent,
\* nothing is created or moved.
C7_PreconditionAborts ==
    target # "dir" =>
        /\ pc \in {"main", "exit"}
        /\ pc = "exit" => (result = "Err" /\ err = "precondition")
        /\ files_to_process = <<>>
        /\ requests = 0
        /\ chunkIdx = 0
        /\ dirs = {} /\ placed = {}
        /\ printed = {}

\* the run has ended on the precondition
C7_Witness == target # "dir" /\ pc = "exit" /\ result = "Err"

\* C8: a run that passed the precondition and found files to sort ends with
\* Ok and the "Done" message.
C8_EndsWithDone ==
    (pc = "exit" /\ target = "dir" /\ files_to_process # <<>>) =>
        (result = "Ok" /\ "Done" \in printed)

\* C9: when no batch was skipped, every mapping had every file of its batch
\* and every creation and move succeeded, then at the end every eligible
\* file is in the directory named by the sanitized category it was given,
\* that directory exists, and the file is no longer at the top level.
C9_EndToEnd ==
    (/\ pc = "exit" /\ result = "Ok"
     /\ skipped = {} /\ unmapped = {} /\ failedMoves = {}) =>
        \A f \in Range(files_to_process) :
            /\ f \notin top
            /\ f \in DOMAIN assigned
            /\ \E d \in dirs : /\ IsSanitizedOf(d, assigned[f])
                               /\ <<d, f>> \in placed
            /\ \A e \in placed : e[2] = f => IsSanitizedOf(e[1], assigned[f])

\* three files ended in two category directories
C9_Witness ==
    /\ pc = "exit" /\ result = "Ok"
    /\ skipped = {} /\ unmapped = {} /\ failedMoves = {}
    /\ Len(files_to_process) = 3
    /\ Cardinality(placed) = 3
    /\ Cardinality({e[1] : e \in placed}) = 2

\* C10: the sanitized category is the alphanumeric characters of the label
\* in their order and casing, or "Other" when there is none; it is never
\* empty and holds only alphanumeric characters.
C10_Sanitize ==
    pc = "sanitized" =>
        /\ IsSanitizedOf(sOut, sIn)
        /\ sOut # <<>>
        /\ \A k \in 1..Len(sOut) : sOut[k] \in AlphaNum
        /\ sIn = <<>> => sOut = <<"O", "t", "h", "e", "r">>
        /\ sIn = <<"!", "!", "!">> => sOut = <<"O", "t", "h", "e", "r">>
        /\ sIn = InvoiceLabel =>
              sOut = <<"M", "y", "I", "n", "v", "o", "i", "c", "e", "s",
                       "2", "0", "2", "4">>

\* "My Invoices 2024!" has been sanitized
C10_Witness ==
    /\ pc = "sanitized"
    /\ sIn = InvoiceLabel
    /\ Len(sOut) = 14

\* the JSON value a response text carries
ValueIn(text) == SelectSeq(text, LAMBDA tok : tok.t = "value")[1].v

HasValue(text) == \E k \in DOMAIN text : text[k].t = "value"

HasFence(text) == \E k \in DOMAIN text : text[k].t = "fence"

HasOtherTag(text) == \E k \in DOMAIN text : text[k].t = "tag"

\* what the unfenced JSON value j parses to: its entries when it is an
\* object with string values only, nothing otherwise
MappingOf(j) ==
    IF j.kind = "object" /\ \A k \in DOMAIN j.entries : j.entries[k].str
    THEN [some |-> TRUE, map |-> [k \in DOMAIN j.entries |-> j.entries[k].s]]
    ELSE [some |-> FALSE, map |-> <<>>]

\* C11 as stated: a JSON value inside a fence with any language tag or none
\* parses to what the unfenced value parses to.
C11_AnyFence ==
    (pc = "parsed" /\ HasValue(pIn)) => pOut = MappingOf(ValueIn(pIn))

\* C11, amended: with the tag json or no tag on the opening fence, the
\* fenced text parses to what the unfenced value parses to; a text without
\* fence parses the same with and without the fence stripping.
C11_JsonFence ==
    pc = "parsed" =>
        /\ (HasValue(pIn) /\ ~HasOtherTag(pIn)) =>
              pOut = MappingOf(ValueIn(pIn))
        /\ ~HasFence(pIn) => pOut = from_str(pIn)

\* ```json, newline, an object of two entries, newline, ``` was parsed
C11_Witness ==
    /\ pc = "parsed"
    /\ \E j \in Payloads : pIn = <<Fence, TagJson, Ws, Json(j), Ws, Fence>>
    /\ pOut.some
    /\ Cardinality(DOMAIN pOut.map) = 2

\* a JSON value that is no object, or an object with a non-string value
IsRejectable(j) ==
    j.kind # "object" \/ \E k \in DOMAIN j.entries : ~j.entries[k].str

\* C12: when the response carries a value that is no object or has a
\* non-string value, the attempt yields no mapping at all and changes
\* nothing on disk, the parse error line quotes the response text as it was
\* received, and the loop goes on as after any failed attempt: to the delay
\* before attempt 3 is used up, else out of the loop.
C12_RejectedAsAWhole ==
    [][ (HasValue(response') /\ IsRejectable(ValueIn(response'))) =>
            /\ pc = "await"
            /\ ~mapping'.some
            /\ mapping' = mapping
            /\ UNCHANGED fsVars
            /\ stderr'.kind = "parse"
            /\ stderr'.text = response'
            /\ pc' = (IF attempt < 3 THEN "sleep" ELSE "after_loop")
            /\ attempt' = attempt
            /\ result' = "running"
      ]_vars

\* a fenced object with one string and one non-string value was rejected
\* and the loop is about to sleep
C12_Witness ==
    /\ pc = "sleep"
    /\ stderr.kind = "parse"
    /\ HasFence(response)
    /\ HasValue(response)
    /\ ValueIn(response).kind = "object"
    /\ \E k \in DOMAIN ValueIn(response).entries : ValueIn(response).entries[k].str
    /\ \E k \in DOMAIN ValueIn(response).entries : ~ValueIn(response).entries[k].str

\* C13: when the category directory of the current file is already there,
\* the placement step creates nothing and raises no error: the loop goes
\* on, and the file is in that directory unless the rename itself failed.
C13_ExistingDirectory ==
    [][ (/\ pc = "place"
         /\ idx <= Len(paths)
         /\ paths[idx] \in DOMAIN mapping.map
         /\ \E d \in dirs : IsSanitizedOf(d, mapping.map[paths[idx]])) =>
            /\ dirs' = dirs
            /\ result' = "running"
            /\ err' = err
            /\ pc' = "place"
            /\ idx' = idx + 1
            /\ \/ paths[idx] \in failedMoves' /\ paths[idx] \in top'
               \/ /\ paths[idx] \notin top'
                  /\ \E d \in dirs : /\ IsSanitizedOf(d, mapping.map[paths[idx]])
                                     /\ <<d, paths[idx]>> \in placed'
      ]_vars

\* the second file of a batch went into the directory the first one is in
C13_Witness ==
    /\ pc = "place"
    /\ idx > 2
    /\ \E d \in dirs : <<d, paths[1]>> \in placed /\ <<d, paths[2]>> \in placed

\* C14: the list of files holds no dot-name and no directory, and does not
\* change after the listing; the names in a prompt are files still at the
\* top level, never a directory; only listed files are ever moved.
C14_EnumeratedOnce ==
    /\ [](\A f \in Range(files_to_process) : Head(f) # "." /\ f \notin PreDirs)
    /\ [](pc \in RetryLoop =>
            \A f \in Range(filenames) :
                f \in top /\ f \notin dirs /\ Head(f) # ".")
    /\ [](\A e \in placed : e[2] \in Range(files_to_process) /\ Head(e[2]) # ".")
    /\ [][ /\ pc # "read_dir" => files_to_process' = files_to_process
           /\ \A f \in top \ top' : f \in Range(files_to_process)
           /\ \A f \in top : Head(f) = "." => f \in top'
         ]_vars

\* a later batch is being classified while the dot-file, the directory from
\* before the run and a directory made by an earlier batch are all there
C14_Witness ==
    /\ pc = "await"
    /\ chunkIdx >= 2
    /\ DotH \in top
    /\ PreDirs \subseteq dirs
    /\ <<"a">> \in dirs

\* C15: a request is sent only from the head of the retry loop and is
\* answered before anything else happens; the filesystem changes only in
\* the placement loop, with a mapping; the run moves to the next batch only
\* from an exhausted retry loop or a finished placement loop, so that while
\* a batch is being classified every file of the earlier batches is settled.
C15_Sequential ==
    /\ [](pc \in RetryLoop =>
            \A j \in 1..(chunkIdx - 1) :
                \/ j \in skipped
                \/ \A f \in Range(ChunkOf(j)) :
                      f \in DOMAIN assigned \/ f \in unmapped)
    /\ [][ /\ requests' > requests =>
                (pc = "send" /\ pc' = "await" /\ requests' = requests + 1)
           /\ pc = "await" =>
                (pc' \in {"sleep", "after_loop"} /\ requests' = requests)
           /\ (top' # top \/ dirs' # dirs \/ placed' # placed) =>
                (pc = "place" /\ mapping.some)
           /\ (chunkIdx' # chunkIdx /\ chunkIdx # 0) =>
                /\ chunkIdx' = chunkIdx + 1
                /\ Exhausted \/ (pc = "place" /\ idx > Len(paths))
         ]_vars

\* the second batch has a request out and a file of the first batch moved
C15_Witness ==
    /\ pc = "await"
    /\ chunkIdx = 2
    /\ \E f \in Range(ChunkOf(1)) : f \notin top

\* C16: the delays of a batch are one fewer than its requests while a
\* request is out and once a mapping is there, and exactly 2 when the 3
\* attempts are used up; a delay happens only after a failed attempt that
\* is not the 3rd, whatever the kind of the failure.
C16_Delays ==
    /\ [](pc = "send" => (delays = attempt - 1 /\ requests = attempt - 1))
    /\ [](pc \in {"await", "sleep"} => delays = requests - 1)
    /\ [](mapping.some => delays = requests - 1)
    /\ [](Exhausted => (requests = 3 /\ delays = 2))
    /\ [][ /\ delays' > delays =>
                /\ pc = "sleep" /\ pc' = "send"
                /\ delays' = delays + 1
                /\ attempt < 3
                /\ ~mapping.some
           /\ (pc = "await" /\ ~mapping'.some) =>
                /\ stderr'.kind \in {"network", "api", "body", "parse"}
                /\ pc' = (IF attempt < 3 THEN "sleep" ELSE "after_loop")
           /\ (pc = "await" /\ mapping'.some) => pc' = "after_loop"
         ]_vars

\* a batch got its mapping on attempt 2, after one delay
C16_Witness ==
    /\ pc = "after_loop"
    /\ mapping.some
    /\ requests = 2
    /\ delays = 1

\* where the file f is inside the directories of the target
Places(f) == {e \in placed : e[2] = f}

\* C17: every listed file is either at its original path and nowhere else,
\* or gone from there and in exactly one directory, the one named by the
\* sanitized category it was given; a file is given its category by the
\* mapping of the batch it is in, is moved from the top level only, and
\* nothing that was moved is moved again or lost.
C17_Conservation ==
    /\ [](\A f \in Range(files_to_process) :
            \/ f \in top /\ Places(f) = {}
            \/ /\ f \notin top
               /\ Cardinality(Places(f)) = 1
               /\ f \in DOMAIN assigned
               /\ \A e \in Places(f) : IsSanitizedOf(e[1], assigned[f]))
    /\ [][ /\ placed \subseteq placed'
           /\ \A e \in placed' \ placed :
                /\ pc = "place"
                /\ e[2] = paths[idx]
                /\ e[2] \in top
                /\ mapping.some
                /\ IsSanitizedOf(e[1], mapping.map[e[2]])
           /\ \A f \in DOMAIN assigned :
                f \in DOMAIN assigned' /\ assigned'[f] = assigned[f]
           /\ \A f \in DOMAIN assigned' \ DOMAIN assigned :
                /\ pc = "place"
                /\ f = paths[idx]
                /\ assigned'[f] = mapping.map[f]
         ]_vars

\* the run is over with one file moved and another left by a failed rename
C17_Witness ==
    /\ pc = "exit"
    /\ placed # {}
    /\ failedMoves # {}

IsDirectChildName(d) == d # <<>> /\ \A k \in DOMAIN d : d[k] \in AlphaNum

\* C18: every directory in the target, and every directory a file was
\* moved into, has a non-empty name of alphanumeric characters only (no
\* separator, no dot), and is a directory of the target itself.
C18_Confinement ==
    /\ \A d \in dirs : IsDirectChildName(d)
    /\ \A e \in placed : e[1] \in dirs /\ IsDirectChildName(e[1])

\* a file given the category "../a" is in the directory a
C18_Witness ==
    \E e \in placed :
        /\ e[2] \in DOMAIN assigned
        /\ assigned[e[2]] = <<".", ".", "/", "a">>
        /\ e[1] = <<"a">>

\* C19: the requests sent since the run began never exceed 3 times the
\* number of batches, ceil(N / b) for N listed files and batch size b; with
\* no file listed none is sent; and from the first request of a batch to
\* the end of its retry loop no step changes the filesystem.
C19_RequestBound ==
    /\ [](sent <= 3 * ((Len(files_to_process) + batch_size - 1) \div batch_size))
    /\ [](files_to_process = <<>> => sent = 0)
    /\ [][ (pc \in RetryLoop /\ requests >= 1) =>
              (top' = top /\ dirs' = dirs /\ placed' = placed) ]_vars

\* every batch of a run of two batches used up its three attempts
C19_Witness ==
    /\ pc = "exit"
    /\ batch_size < Len(files_to_process)
    /\ sent = 3 * ((Len(files_to_process) + batch_size - 1) \div batch_size)

====
